---- MODULE Spec2Model ----
(***************************************************************************)
(* Model of scripts/fetch_captions.py: a command-line script that fetches  *)
(* the captions of one video through YouTubeTranscriptApi and prints them  *)
(* as a JSON array on standard output, or a JSON error object on standard  *)
(* error.                                                                  *)
(*                                                                         *)
(* The process is sequential; pc is its position in the script.  The       *)
(* external library (the client constructor, fetch, and the iteration of   *)
(* the returned transcript) is an opaque collaborator: each of its three   *)
(* entry points either returns or raises an Exception, chosen              *)
(* nondeterministically.                                                   *)
(*                                                                         *)
(* Streams are sequences of written lines.  A line of standard output is   *)
(* the JSON array json.dumps produced, kept as the sequence of its         *)
(* objects; a line of standard error is either a JSON object with the one  *)
(* key "error" or the interpreter's traceback of an uncaught exception.    *)
(* Caption times are numbers and caption texts strings, which json.dumps   *)
(* always serialises; the model draws the times from small integers.       *)
(***************************************************************************)
EXTENDS Integers, Sequences, FiniteSets

\* ---- bounds of the model ------------------------------------------------
MaxArgs == 2        \* command-line arguments after the script name
MaxRecords == 3     \* records in a transcript returned by the library

\* ---- input domains ------------------------------------------------------
ScriptName == "fetch_captions.py"
VideoIds == {"", "dQw4w9WgXcQ"}
Starts == {0, 3}
Durations == {1, 2}
Texts == {"", "a"}
Messages == {"No captions", "boom"}

\* A record of the upstream transcript: exposes start, duration, text.
Snippet == [start : Starts, duration : Durations, text : Texts]

SeqUpTo(S, n) == UNION {[1..k -> S] : k \in 0..n}

\* sys.argv: the script name followed by at most MaxArgs arguments.
ArgVectors == {<<ScriptName>> \o a : a \in SeqUpTo(VideoIds, MaxArgs)}

\* The transcripts the library may return.
Transcripts == SeqUpTo(Snippet, MaxRecords)

\* An exception object, and str(e).
Exc(m) == [msg |-> m]
str(e) == e.msg

\* ---- state --------------------------------------------------------------
VARIABLES
  pc,           \* "main", "construct", "call_fetch", "iterate", "done"
  sys_argv,     \* sys.argv
  video_id,     \* <<v>> once fetch(v) was entered, <<>> before
  ctorCalls,    \* number of calls of YouTubeTranscriptApi()
  fetchCalls,   \* the video_id argument of each ytt_api.fetch call, in order
  transcript,   \* what ytt_api.fetch returned
  idx,          \* number of records the comprehension has consumed
  segments,     \* the list the comprehension is building
  raised,       \* the exceptions raised so far: [step, msg], in order
  stdout,       \* lines written to standard output
  stderr,       \* lines written to standard error
  exit_status   \* the process exit status; -1 while the process runs

vars == <<pc, sys_argv, video_id, ctorCalls, fetchCalls, transcript, idx,
          segments, raised, stdout, stderr, exit_status>>

Running == -1

UsageMessage == "Usage: fetch_captions.py <video_id>"

\* json.dumps({"error": m}) as written to standard error.
\* (Variant: the handler reports a fixed text instead of str(e).)
ErrorReportUniform(m) == [kind |-> "json", key |-> "error", value |-> "error"]
ErrorReport(m) == [kind |-> "json", key |-> "error", value |-> m]

\* The interpreter's report of an uncaught exception e.
Traceback(e) == [kind |-> "traceback", key |-> "", value |-> str(e)]

\* {"start": s.start, "dur": s.duration, "text": s.text}
\* (Variant: start and duration exchanged.)
MapSegmentSwapped(s) == [start |-> s.duration, dur |-> s.start, text |-> s.text]
MapSegment(s) == [start |-> s.start, dur |-> s.duration, text |-> s.text]

Init ==
  /\ pc = "main"
  /\ sys_argv \in ArgVectors
  /\ video_id = <<>>
  /\ ctorCalls = 0
  /\ fetchCalls = <<>>
  /\ transcript = <<>>
  /\ idx = 0
  /\ segments = <<>>
  /\ raised = <<>>
  /\ stdout = <<>>
  /\ stderr = <<>>
  /\ exit_status = Running

\* except Exception as e: print(json.dumps({"error": str(e)}), file=sys.stderr);
\* sys.exit(1)
\* (Variant: the handler without its sys.exit(1): the script falls off its
\* end and exits 0.)
ExceptHandlerNoExit(step, e) ==
  /\ raised' = Append(raised, [step |-> step, msg |-> str(e)])
  /\ stderr' = Append(stderr, ErrorReport(str(e)))
  /\ exit_status' = 0
  /\ pc' = "done"
  /\ UNCHANGED stdout
ExceptHandler(step, e) ==
  /\ raised' = Append(raised, [step |-> step, msg |-> str(e)])
  /\ stderr' = Append(stderr, ErrorReport(str(e)))
  /\ exit_status' = 1
  /\ pc' = "done"
  /\ UNCHANGED stdout

\* An exception that no handler encloses: the interpreter prints the
\* traceback on standard error and the process exits with status 1.
Uncaught(step, e) ==
  /\ raised' = Append(raised, [step |-> step, msg |-> str(e)])
  /\ stderr' = Append(stderr, Traceback(e))
  /\ exit_status' = 1
  /\ pc' = "done"
  /\ UNCHANGED stdout

\* if len(sys.argv) < 2: usage error, exit 1; else fetch(sys.argv[1]).
\* Python's sys.argv[1] is the second element, sys_argv[2] here.
\* (Variants: the usage branch without its sys.exit(1); a test that also
\* rejects the empty identifier.)
MainNoExit ==
  /\ pc = "main"
  /\ IF Len(sys_argv) < 2
       THEN /\ stderr' = Append(stderr, ErrorReport(UsageMessage))
            /\ video_id' = <<"">>
            /\ pc' = "construct"
            /\ UNCHANGED exit_status
       ELSE /\ video_id' = <<sys_argv[2]>>
            /\ pc' = "construct"
            /\ UNCHANGED <<stderr, exit_status>>
  /\ UNCHANGED <<sys_argv, ctorCalls, fetchCalls, transcript, idx, segments,
                 raised, stdout>>
MainRejectsEmpty ==
  /\ pc = "main"
  /\ IF Len(sys_argv) < 2 \/ sys_argv[2] = ""
       THEN /\ stderr' = Append(stderr, ErrorReport(UsageMessage))
            /\ exit_status' = 1
            /\ pc' = "done"
            /\ UNCHANGED video_id
       ELSE /\ video_id' = <<sys_argv[2]>>
            /\ pc' = "construct"
            /\ UNCHANGED <<stderr, exit_status>>
  /\ UNCHANGED <<sys_argv, ctorCalls, fetchCalls, transcript, idx, segments,
                 raised, stdout>>
Main ==
  /\ pc = "main"
  /\ IF Len(sys_argv) < 2
       THEN /\ stderr' = Append(stderr, ErrorReport(UsageMessage))
            /\ exit_status' = 1
            /\ pc' = "done"
            /\ UNCHANGED video_id
       ELSE /\ video_id' = <<sys_argv[2]>>
            /\ pc' = "construct"
            /\ UNCHANGED <<stderr, exit_status>>
  /\ UNCHANGED <<sys_argv, ctorCalls, fetchCalls, transcript, idx, segments,
                 raised, stdout>>

\* ytt_api = YouTubeTranscriptApi(), before the try statement.
Construct ==
  /\ pc = "construct"
  /\ ctorCalls' = ctorCalls + 1
  /\ \/ /\ pc' = "call_fetch"
        /\ UNCHANGED <<raised, stdout, stderr, exit_status>>
     \/ \E m \in Messages : Uncaught("construct", Exc(m))
  /\ UNCHANGED <<sys_argv, video_id, fetchCalls, transcript, idx, segments>>

\* transcript = ytt_api.fetch(video_id=video_id), inside the try statement.
\* (Variant: a first failure is retried once.)
FetchCallRetry ==
  /\ pc = "call_fetch"
  /\ fetchCalls' = Append(fetchCalls, video_id[1])
  /\ \/ \E r \in Transcripts :
          /\ transcript' = r
          /\ idx' = 0
          /\ segments' = <<>>
          /\ pc' = "iterate"
          /\ UNCHANGED <<raised, stdout, stderr, exit_status>>
     \/ \E m \in Messages :
          /\ IF Len(fetchCalls) = 0
               THEN /\ raised' = Append(raised, [step |-> "fetch", msg |-> m])
                    /\ pc' = "call_fetch"
                    /\ UNCHANGED <<stdout, stderr, exit_status>>
               ELSE ExceptHandler("fetch", Exc(m))
          /\ UNCHANGED <<transcript, idx, segments>>
  /\ UNCHANGED <<sys_argv, video_id, ctorCalls>>
FetchCall ==
  /\ pc = "call_fetch"
  /\ fetchCalls' = Append(fetchCalls, video_id[1])
  /\ \/ \E r \in Transcripts :
          /\ transcript' = r
          /\ idx' = 0
          /\ segments' = <<>>
          /\ pc' = "iterate"
          /\ UNCHANGED <<raised, stdout, stderr, exit_status>>
     \/ \E m \in Messages :
          /\ ExceptHandler("fetch", Exc(m))
          /\ UNCHANGED <<transcript, idx, segments>>
  /\ UNCHANGED <<sys_argv, video_id, ctorCalls>>

\* One round of the comprehension [ {...} for s in transcript ]: the next
\* record is mapped and appended, or producing it raises.
\* (Variants: the handler flushes the segments mapped so far; a failure
\* restarts the comprehension instead of ending the run.)
IterateStreaming ==
  /\ pc = "iterate"
  /\ idx < Len(transcript)
  /\ \/ /\ segments' = Append(segments, MapSegment(transcript[idx + 1]))
        /\ idx' = idx + 1
        /\ UNCHANGED <<pc, raised, stdout, stderr, exit_status>>
     \/ \E m \in Messages :
          /\ raised' = Append(raised, [step |-> "iterate", msg |-> m])
          /\ stdout' = IF segments = <<>> THEN stdout ELSE Append(stdout, segments)
          /\ stderr' = Append(stderr, ErrorReport(m))
          /\ exit_status' = 1
          /\ pc' = "done"
          /\ UNCHANGED <<idx, segments>>
  /\ UNCHANGED <<sys_argv, video_id, ctorCalls, fetchCalls, transcript>>
IterateRestart ==
  /\ pc = "iterate"
  /\ idx < Len(transcript)
  /\ \/ /\ segments' = Append(segments, MapSegment(transcript[idx + 1]))
        /\ idx' = idx + 1
        /\ UNCHANGED <<pc, raised, stdout, stderr, exit_status>>
     \/ /\ idx > 0
        /\ idx' = 0
        /\ segments' = <<>>
        /\ UNCHANGED <<pc, raised, stdout, stderr, exit_status>>
  /\ UNCHANGED <<sys_argv, video_id, ctorCalls, fetchCalls, transcript>>
Iterate ==
  /\ pc = "iterate"
  /\ idx < Len(transcript)
  /\ \/ /\ segments' = Append(segments, MapSegment(transcript[idx + 1]))
        /\ idx' = idx + 1
        /\ UNCHANGED <<pc, raised, stdout, stderr, exit_status>>
     \/ \E m \in Messages :
          /\ ExceptHandler("iterate", Exc(m))
          /\ UNCHANGED <<idx, segments>>
  /\ UNCHANGED <<sys_argv, video_id, ctorCalls, fetchCalls, transcript>>

\* print(json.dumps(segments)) once the comprehension is exhausted; fetch
\* returns, the script ends and the process exits with status 0.
PrintSegments ==
  /\ pc = "iterate"
  /\ idx = Len(transcript)
  /\ stdout' = Append(stdout, segments)
  /\ exit_status' = 0
  /\ pc' = "done"
  /\ UNCHANGED <<sys_argv, video_id, ctorCalls, fetchCalls, transcript, idx,
                 segments, raised, stderr>>

Next == Main \/ Construct \/ FetchCall \/ Iterate \/ PrintSegments

Spec == Init /\ [][Next]_vars

\* The interpreter runs the script to its end: it never stops between
\* statements.
LiveSpec == Spec /\ WF_vars(Next)

\* ---- vocabulary of the properties ---------------------------------------
Done == pc = "done"
HasIdentifier == Len(sys_argv) >= 2
RaisedAt(step) == \E i \in 1..Len(raised) : raised[i].step = step
JsonError(m) == [kind |-> "json", key |-> "error", value |-> m]
HoldsErrorReport(stream) == \E i \in 1..Len(stream) : stream[i].kind = "json"
Expected(r) == [i \in 1..Len(r) |->
                  [start |-> r[i].start, dur |-> r[i].duration, text |-> r[i].text]]
Rank(p) == CASE p = "main" -> 0
             [] p = "construct" -> 1
             [] p = "call_fetch" -> 2
             [] p = "iterate" -> 3
             [] p = "done" -> 4

\* C1: when the fetch call raises an exception with message m, standard
\* error holds exactly the one line {"error": m}, standard output holds
\* nothing, and the exit status is 1.
C1_FetchErrorReported ==
  \A i \in 1..Len(raised) :
    raised[i].step = "fetch" =>
      /\ Done
      /\ stderr = <<JsonError(raised[i].msg)>>
      /\ stdout = <<>>
      /\ exit_status = 1

C1_Witness ==
  /\ Done
  /\ raised = <<[step |-> "fetch", msg |-> "No captions"]>>
  /\ stderr = <<JsonError("No captions")>>

\* C2: with no command-line argument the client is never constructed and
\* fetch is never called, and the run ends with exit status 1 and the usage
\* ErrorReport on standard error.
C2_NoArgumentUsage ==
  ~HasIdentifier =>
    /\ ctorCalls = 0
    /\ fetchCalls = <<>>
    /\ pc \in {"main", "done"}
    /\ Done => /\ exit_status = 1
               /\ stderr = <<JsonError(UsageMessage)>>

C2_Witness == Done /\ Len(sys_argv) = 1 /\ exit_status = 1

\* C3: after a fetch that returned R and an iteration that did not raise,
\* the one printed sequence S has Len(S) = Len(R) and S[i].start =
\* R[i].start, S[i].dur = R[i].duration, S[i].text = R[i].text for every i.
C3_OrderPreserved ==
  (Done /\ Len(fetchCalls) = 1 /\ raised = <<>>) =>
    /\ Len(stdout) = 1
    /\ Len(stdout[1]) = Len(transcript)
    /\ \A i \in 1..Len(transcript) :
         /\ stdout[1][i].start = transcript[i].start
         /\ stdout[1][i].dur = transcript[i].duration
         /\ stdout[1][i].text = transcript[i].text

C3_Witness ==
  /\ Done
  /\ raised = <<>>
  /\ Len(transcript) = 3
  /\ transcript[1] # transcript[2]
  /\ transcript[2] # transcript[3]
  /\ Len(stdout) = 1
  /\ Len(stdout[1]) = 3

\* C4: in every terminal state exactly one outcome was produced: a segment
\* sequence on standard output and no ErrorReport on standard error, or an
\* ErrorReport on standard error and nothing on standard output.
C4_ExactlyOneOutcome ==
  Done =>
    \/ Len(stdout) = 1 /\ ~HoldsErrorReport(stderr)
    \/ HoldsErrorReport(stderr) /\ stdout = <<>>

\* C5: standard output is empty or holds the complete mapped sequence of
\* all upstream records; when the iteration raised, it is empty.
C5_NoPartialOutput ==
  /\ stdout = <<>> \/ stdout = <<Expected(transcript)>>
  /\ RaisedAt("iterate") => stdout = <<>>

C5_Witness ==
  /\ Done
  /\ RaisedAt("iterate")
  /\ Len(segments) >= 1
  /\ stdout = <<>>

\* C6 (as stated): every terminal state of a run with an identifier has
\* exactly one fetch call.
C6_ExactlyOneFetch == (Done /\ HasIdentifier) => Len(fetchCalls) = 1

\* C6 (amended): there is never more than one fetch call; a terminal state
\* of a run with an identifier has exactly one, unless constructing the
\* client raised, and then it has none.
C6_AtMostOneFetch ==
  /\ Len(fetchCalls) <= 1
  /\ RaisedAt("construct") => fetchCalls = <<>>
  /\ (Done /\ HasIdentifier /\ ~RaisedAt("construct")) => Len(fetchCalls) = 1

C6_Witness ==
  /\ Done
  /\ RaisedAt("fetch")
  /\ Len(fetchCalls) = 1

\* C7: the exit status is 0 exactly when the segment sequence was printed,
\* and 1 after a missing argument or an exception; no other status occurs.
C7_ExitCodes ==
  /\ exit_status \in {Running, 0, 1}
  /\ Done <=> exit_status # Running
  /\ Done => (exit_status = 0 <=> Len(stdout) = 1)
  /\ (Done /\ (~HasIdentifier \/ raised # <<>>)) => exit_status = 1

C7_Witness ==
  /\ Done
  /\ RaisedAt("iterate")
  /\ exit_status = 1
  /\ stdout = <<>>

\* C8: whichever step raises (constructing the client, the fetch call,
\* iterating the records), the run ends with the ErrorReport of that
\* exception on standard error and a non-zero exit status.
C8_UniformFailure ==
  \A i \in 1..Len(raised) :
    Done => /\ stderr = <<JsonError(raised[i].msg)>>
            /\ exit_status \notin {Running, 0}

\* C9: the run eventually reaches a terminal state, and no step moves
\* back to an earlier position of the script.
C9_Terminates ==
  /\ <>Done
  /\ [][pc' # pc => Rank(pc') > Rank(pc)]_vars

C9_Witness ==
  /\ Done
  /\ Len(transcript) >= 1
  /\ raised = <<>>
  /\ exit_status = 0

====
